---- MODULE Spec2Model ----
(***************************************************************************)
(* Resumable batch-execution engine of the VisualSphinx generator          *)
(* pipeline: the four stages that drive remote calls to completion with a  *)
(* checkpoint file.                                                        *)
(*   s12  step1.2_claude_rewrite.py         thread pool, as_completed      *)
(*   s14  step1.4_claude_verify.py          thread pool, executor.map      *)
(*   s16  step1.6_claude_rule_abstraction.py  provider batch jobs          *)
(*   s18  step1.8_claude_rule_classification.py  provider batch jobs       *)
(* A behaviour is a sequence of process runs of one stage over one input   *)
(* file; the files survive from run to run, the memory does not.           *)
(* Environment assumptions: file-system calls (open, write, rename, mkdir) *)
(* do not raise; a killed process leaves the files as they are; a file is  *)
(* written with one write at offset 0 when its handle is closed; the       *)
(* provider's client is built whether or not it has a key, and every call  *)
(* of a client without a key raises.                                       *)
(* Spec is the stage run again and again from empty files; SpecLoad is the *)
(* load of a first run over any small checkpoint file; SpecResume is one   *)
(* run started on a checkpoint with one resolved record; SpecBatchLive is  *)
(* a fresh batch run under fair scheduling; SpecIds is a batch run over    *)
(* integer and string ids; SpecParse is the parsing of one provider        *)
(* response by each stage; SpecFilter is the offline filter stage          *)
(*   s15  step1.5_filter_correct.py                                        *)
(* over one verify file and one questions file.                            *)
(***************************************************************************)
EXTENDS Integers, Sequences, FiniteSets, TLC

\* ---------------------------------------------------------------- bounds
NItems == 3          \* number of objects in the input file
NumWorkers == 2      \* --max_workers
SaveInterval == 1    \* --save_interval: this value or four times this value
BatchSize == 2       \* --batch_size
MaxRateLimited == 1  \* input items whose remote call is always rate limited
MaxFaulty == 2       \* input items of a kind other than "ok"
MaxFileLen == 2      \* entries of a checkpoint file found at the first run
MaxRespLen == 4      \* characters and tags of a provider response
MaxResults == 2      \* records of the verify file that step1.5 reads

\* ------------------------------------------------------ program constants
MaxTries == 8        \* backoff max_tries

NoId == 0            \* item.get("id") is None
Main == 0            \* the main thread
Free == -1           \* the lock is not held

Pos == 1..NItems
Threads == {Main} \cup Pos
ThreadStages == {"s12", "s14"}
BatchStages == {"s16", "s18"}
Stages == ThreadStages \cup BatchStages

\* What the environment does with an item, the same in every run:
\*   ok     the remote call returns a response
\*   err    the remote call raises an error that is not a rate limit
\*   rl     the remote call raises rate_limit_error on every attempt
\*   noimg  the item's image is missing (stages that attach an image)
\*   noid   the item has no id; its remote call returns a response
\*   nomsg  the batch entry of the item carries no message (batch stages)
\*   numstr the item's id is a string of decimal digits; a response comes
\*   str    the item's id is a string that is not a number; a response comes
KindsOf(s) ==
  CASE s = "s12" -> {"ok", "err", "rl", "noid"}
    [] s = "s14" -> {"ok", "err", "rl", "noimg", "noid"}
    [] OTHER     -> {"ok", "nomsg", "noimg"}

VARIABLES
  stage,      \* which script is run
  kind,       \* position of the input -> what the environment does with it
  interval,   \* save_interval of the runs
  files,      \* path -> [st, recs]: the intermediate and the output file
  mainPc,     \* position of the main thread
  results,    \* the results dict, in insertion order
  counter,    \* processed_since_last_save (s12)
  lock,       \* holder of results_lock / self.lock
  todo,       \* items_to_process / todo: input positions, in input order
  tpc,        \* position of the task of each input position
  calls,      \* remote call attempts per input position, this run
  snap,       \* thread -> the sorted list its running save will write
  mapIdx,     \* index in todo of the future executor.map waits for (s14)
  bidx,       \* idx of the chunk loop (batch stages)
  reqs,       \* requests of the current chunk (input positions)
  job,        \* state of the current batch job
  ent,        \* number of result entries already read
  loaded,     \* ids that had a resolved record when this run loaded
  saved,      \* a save has completed in this run
  jobFail,    \* a batch call raised in this run
  prev,       \* how the previous run ended and what it left on disk
  lastSave,   \* the list the last completed save was given to write
  setup,      \* what the run finds of its credential and prompt template
  written,    \* ids the checkpoint file has held after a save of this run
  response_text,      \* the text of a provider response that is parsed
  payload,            \* what the parser of the stage makes of it
  puzzle_results,     \* step1.5: the records of the verify stage's file
  merged_questions,   \* step1.5: the ids of the questions file
  filtered_questions  \* step1.5: the questions kept, with their new ids

vars == <<stage, kind, interval, files, mainPc, results, counter, lock, todo, tpc,
          calls, snap, mapIdx, bidx, reqs, job, ent, loaded, saved,
          jobFail, prev, lastSave, setup, written,
          response_text, payload, puzzle_results, merged_questions,
          filtered_questions>>

\* what the engine stages leave alone: the parser's and the filter's data
offline == <<response_text, payload, puzzle_results, merged_questions,
             filtered_questions>>

\* no response is being parsed and the filter stage is not run
NoOffline ==
  /\ response_text = <<>>
  /\ payload = <<>>
  /\ puzzle_results = <<>>
  /\ merged_questions = {}
  /\ filtered_questions = <<>>

\* ------------------------------------------------------------- the input
\* ids of the input file by position: adjacent pairs swapped, so that the
\* input order is not the sorted order (2, 1, 3 for three items)
IdOf(p) ==
  IF p % 2 = 1 THEN (IF p + 1 <= NItems THEN p + 1 ELSE p) ELSE p - 1

\* item["id"]: n > 0 stands for the integer n, -n (n <= NItems) for the
\* string of the decimal digits of n, a smaller value for a string that is
\* not a number
ItemId(p) ==
  CASE kind[p] = "noid"   -> NoId
    [] kind[p] = "numstr" -> 0 - IdOf(p)
    [] kind[p] = "str"    -> 0 - (NItems + IdOf(p))
    [] OTHER              -> IdOf(p)

\* the record an item ends with when its processing is over
Outcome(p) == IF kind[p] \in {"ok", "noid", "numstr", "str"} THEN "ok" ELSE "err"

Rec(i, s) == [id |-> i, st |-> s]

\* ------------------------------------------------------- dict and sorting
Keys(res) == {res[k].id : k \in 1..Len(res)}

HasKey(res, i) == i \in Keys(res)

Get(res, i) == res[CHOOSE k \in 1..Len(res) : res[k].id = i]

\* a store that forgets what the dict held
Put_forgetful(res, rec) == <<rec>>

\* results[i] = rec: an existing key keeps its place, a new key is appended
Put(res, rec) ==
  IF HasKey(res, rec.id)
    THEN [k \in 1..Len(res) |-> IF res[k].id = rec.id THEN rec ELSE res[k]]
    ELSE Append(res, rec)

RECURSIVE PutAll(_, _)
PutAll(res, recs) ==
  IF recs = <<>> THEN res ELSE PutAll(Put(res, Head(recs)), Tail(recs))

SelectHasId(recs) == SelectSeq(recs, LAMBDA r : r.id # NoId)

\* a list that grows in completion order
Insert_append(srt, rec) == Append(srt, rec)

\* sorted(..., key=id): stable insertion into an ascending list
Insert(srt, rec) ==
  LET n == Cardinality({k \in 1..Len(srt) : srt[k].id <= rec.id})
  IN  SubSeq(srt, 1, n) \o <<rec>> \o SubSeq(srt, n + 1, Len(srt))

RECURSIVE SortById(_)
SortById(recs) ==
  IF recs = <<>> THEN <<>>
  ELSE Insert(SortById(SubSeq(recs, 1, Len(recs) - 1)), recs[Len(recs)])

\* ------------------------------------------------------------- the files
\* a file is [st, recs, ext]: ext is the length of what has been written
\* since the file was last truncated, counted in records
Absent == [st |-> "absent", recs |-> <<>>, ext |-> 0]
\* open(path, "w"): truncated, nothing written yet
Torn == [st |-> "torn", recs |-> <<>>, ext |-> 0]
FileOf(recs) == [st |-> "ok", recs |-> recs, ext |-> Len(recs)]

\* json.dump and close on a handle opened before: the text goes to offset 0
\* and the file is not truncated again, so a longer text that another
\* handle wrote in between keeps its tail and the file is no JSON document
Written(f, recs) ==
  IF f.ext > Len(recs)
    THEN [st |-> "torn", recs |-> <<>>, ext |-> f.ext]
    ELSE FileOf(recs)

\* json.load of a checkpoint: nothing from a missing or unreadable file
Parse(f) == IF f.st = "ok" THEN f.recs ELSE <<>>

\* an entry of a checkpoint file that is not a JSON object
Bad == [id |-> NoId, st |-> "bad"]

\* the loop over json.load(f) inside the try of a load: an entry that is
\* no object raises at rec.get / rec["id"], the except clause ends the
\* load, and what the loop has stored before stays in the results dict
ReadUpToBad(recs) ==
  LET bad == {k \in 1..Len(recs) : recs[k] = Bad}
  IN  IF bad = {} THEN recs
      ELSE SubSeq(recs, 1, (CHOOSE k \in bad : \A j \in bad : k <= j) - 1)

InputSeq == [p \in Pos |-> p]

\* ------------------------------------------------------------------ Init
NoPrev == [end |-> "none", files |-> [f \in {"inter", "out"} |-> Absent],
           jobFail |-> FALSE]

\* the memory of a process that has just started
FreshMemory ==
  /\ mainPc' = "start"
  /\ results' = <<>>
  /\ counter' = 0
  /\ lock' = Free
  /\ todo' = <<>>
  /\ tpc' = [p \in Pos |-> "none"]
  /\ calls' = [p \in Pos |-> 0]
  /\ snap' = [th \in Threads |-> <<>>]
  /\ mapIdx' = 1
  /\ bidx' = 0
  /\ reqs' = <<>>
  /\ job' = "none"
  /\ ent' = 0
  /\ loaded' = {}
  /\ saved' = FALSE
  /\ jobFail' = FALSE
  /\ written' = {}

Init ==
  /\ stage \in Stages
  /\ kind \in [Pos -> KindsOf(stage)]
  /\ Cardinality({p \in Pos : kind[p] = "rl"}) <= MaxRateLimited
  /\ Cardinality({p \in Pos : kind[p] # "ok"}) <= MaxFaulty
  /\ interval \in {SaveInterval, 4 * SaveInterval}
  /\ files = [f \in {"inter", "out"} |-> Absent]
  /\ mainPc = "start"
  /\ results = <<>>
  /\ counter = 0
  /\ lock = Free
  /\ todo = <<>>
  /\ tpc = [p \in Pos |-> "none"]
  /\ calls = [p \in Pos |-> 0]
  /\ snap = [th \in Threads |-> <<>>]
  /\ mapIdx = 1
  /\ bidx = 0
  /\ reqs = <<>>
  /\ job = "none"
  /\ ent = 0
  /\ loaded = {}
  /\ saved = FALSE
  /\ jobFail = FALSE
  /\ prev = NoPrev
  /\ lastSave = <<>>
  /\ setup \in {"ok", "nocred", "notmpl"}
  /\ written = {}
  /\ NoOffline

\* ------------------------------------------------------ the thread pool
Running(p) == tpc[p] \notin {"none", "pending", "done", "exc", "cancelled"}

NumRunning == Cardinality({p \in Pos : Running(p)})

\* a pool that starts a thread for every work item
NextQueued_unbounded(p) ==
  /\ tpc[p] = "pending"
  /\ \A k \in 1..Len(todo) : todo[k] < p => tpc[todo[k]] # "pending"

\* a worker thread takes the first work item of the queue
NextQueued(p) ==
  /\ tpc[p] = "pending"
  /\ \A k \in 1..Len(todo) : todo[k] < p => tpc[todo[k]] # "pending"
  /\ NumRunning < NumWorkers

SetPc(th, v) ==
  IF th = Main
    THEN mainPc' = v /\ UNCHANGED tpc
    ELSE tpc' = [tpc EXCEPT ![th] = v] /\ UNCHANGED mainPc

\* the tasks submitted for the work list
Submitted(ps) ==
  [p \in Pos |-> IF \E k \in 1..Len(ps) : ps[k] = p THEN "pending" ELSE "none"]

\* ======================================================= start-up checks
\* What stops a run before it loads anything:
\*   step1.2  no API key, no prompt template: sys.exit(1)
\*   step1.4  no API key: exit(1); no template: FileNotFoundError from the
\*            constructor, caught in main, exit(1)
\*   step1.6, step1.8  no template: FileNotFoundError from the constructor
\*            leaves main; the key is handed to the client unchecked
FatalSetup(s, c) ==
  IF s \in ThreadStages THEN c \in {"nocred", "notmpl"} ELSE c = "notmpl"

\* the run ends with a non-zero status before the checkpoint is loaded
setup_exit ==
  /\ mainPc = "start" /\ FatalSetup(stage, setup)
  /\ mainPc' = "exit1"
  /\ UNCHANGED <<written, offline, setup, stage, kind, interval, files, results, counter, lock, todo,
                 tpc, calls, snap, mapIdx, bidx, reqs, job, ent, loaded, saved,
                 jobFail, prev, lastSave>>

\* ==================================================== step1.2 (s12)
\* a record of step1.2 is resolved when it has "translation" or "error"
Resolved12(rec) == rec.st \in {"ok", "err"}

items_to_process12(res) ==
  SelectSeq(InputSeq,
            LAMBDA p : ~(HasKey(res, ItemId(p)) /\ Resolved12(Get(res, ItemId(p)))))

\* load the intermediate file, plan the work list, open the pool
main12_load ==
  /\ stage = "s12" /\ mainPc = "start" /\ ~FatalSetup(stage, setup)
  /\ LET res == PutAll(<<>>, SelectHasId(ReadUpToBad(Parse(files["inter"]))))
         its == items_to_process12(res)
     IN  /\ results' = res
         /\ loaded' = {res[k].id : k \in {j \in 1..Len(res) : Resolved12(res[j])}}
         /\ todo' = its
         /\ tpc' = Submitted(its)
         /\ mainPc' = IF its = <<>> THEN "final_save" ELSE "pool"
  /\ UNCHANGED <<written, offline, setup, stage, kind, interval, files, counter, lock, calls, snap, mapIdx,
                 bidx, reqs, job, ent, saved, jobFail, prev, lastSave>>

\* translate_item_process up to the pacing sleep
translate_item_start(p) ==
  /\ stage = "s12" /\ mainPc = "pool" /\ NextQueued(p)
  /\ tpc' = [tpc EXCEPT ![p] =
       IF HasKey(results, ItemId(p)) /\ Resolved12(Get(results, ItemId(p)))
         THEN "done" ELSE "pace"]
  /\ UNCHANGED <<written, offline, setup, stage, kind, interval, files, mainPc, results, counter, lock, todo,
                 calls, snap, mapIdx, bidx, reqs, job, ent, loaded, saved,
                 jobFail, prev, lastSave>>

\* time.sleep(request_delay + jitter)
translate_item_pace(p) ==
  /\ stage = "s12" /\ tpc[p] = "pace"
  /\ tpc' = [tpc EXCEPT ![p] = "call"]
  /\ UNCHANGED <<written, offline, setup, stage, kind, interval, files, mainPc, results, counter, lock, todo,
                 calls, snap, mapIdx, bidx, reqs, job, ent, loaded, saved,
                 jobFail, prev, lastSave>>

\* a backoff that retries whatever the error is
giveup12_never(k) == FALSE

\* backoff gives up on an error that is not a rate limit
giveup12(k) == k # "rl"

\* one attempt of translate_with_retry; budget: max_time has run out
translate_with_retry(p, budget) ==
  /\ stage = "s12" /\ tpc[p] = "call"
  /\ calls' = [calls EXCEPT ![p] = calls[p] + 1]
  /\ tpc' = [tpc EXCEPT ![p] =
       IF kind[p] \in {"ok", "noid"} THEN "lock"
       ELSE IF giveup12(kind[p]) \/ calls[p] + 1 >= MaxTries \/ budget
         THEN "lock" ELSE "backoff"]
  /\ UNCHANGED <<written, offline, setup, stage, kind, interval, files, mainPc, results, counter, lock, todo,
                 snap, mapIdx, bidx, reqs, job, ent, loaded, saved,
                 jobFail, prev, lastSave>>

\* the wait between two attempts
translate_backoff(p) ==
  /\ stage = "s12" /\ tpc[p] = "backoff"
  /\ tpc' = [tpc EXCEPT ![p] = "call"]
  /\ UNCHANGED <<written, offline, setup, stage, kind, interval, files, mainPc, results, counter, lock, todo,
                 calls, snap, mapIdx, bidx, reqs, job, ent, loaded, saved,
                 jobFail, prev, lastSave>>

\* with results_lock: the worker waits for the lock and takes it
translate_item_lock(p) ==
  /\ stage = "s12" /\ tpc[p] = "lock" /\ lock = Free
  /\ lock' = p
  /\ tpc' = [tpc EXCEPT ![p] = "locked"]
  /\ UNCHANGED <<written, offline, setup, stage, kind, interval, files, mainPc, results, counter, todo,
                 calls, snap, mapIdx, bidx, reqs, job, ent, loaded, saved,
                 jobFail, prev, lastSave>>

\* inside the lock: store the record, count it; the save is called with
\* the lock held
translate_item_record(p) ==
  /\ stage = "s12" /\ tpc[p] = "locked"
  /\ results' = Put(results, Rec(ItemId(p), Outcome(p)))
  /\ counter' = counter + 1
  /\ IF counter + 1 >= interval
       THEN lock' = p /\ tpc' = [tpc EXCEPT ![p] = "save_enter"]
       ELSE lock' = Free /\ tpc' = [tpc EXCEPT ![p] = "done"]
  /\ UNCHANGED <<written, offline, setup, stage, kind, interval, files, mainPc, todo, calls, snap, mapIdx,
                 bidx, reqs, job, ent, loaded, saved, jobFail, prev, lastSave>>

AtPc(th, v) == IF th = Main THEN mainPc = v ELSE tpc[th] = v

\* save_intermediate_results_local: with results_lock, wait for the lock
\* and take it
save_intermediate_lock(th) ==
  /\ stage = "s12" /\ AtPc(th, IF th = Main THEN "final_save" ELSE "save_enter")
  /\ lock = Free
  /\ lock' = th
  /\ SetPc(th, "save_locked")
  /\ UNCHANGED <<written, offline, setup, stage, kind, interval, files, results, counter, todo, calls,
                 snap, mapIdx, bidx, reqs, job, ent, loaded, saved, jobFail,
                 prev, lastSave>>

\* inside the lock: take the sorted list, then release the lock
save_intermediate_snapshot(th) ==
  /\ stage = "s12" /\ AtPc(th, "save_locked")
  /\ snap' = [snap EXCEPT ![th] = SortById(SelectHasId(results))]
  /\ lock' = Free
  /\ SetPc(th, "save_open")
  /\ UNCHANGED <<written, offline, setup, stage, kind, interval, files, results, counter, todo, calls,
                 mapIdx, bidx, reqs, job, ent, loaded, saved, jobFail, prev, lastSave>>

\* open(intermediate_output_file, "w")
save_intermediate_open(th) ==
  /\ stage = "s12" /\ AtPc(th, "save_open")
  /\ files' = [files EXCEPT !["inter"] = Torn]
  /\ SetPc(th, "save_dump")
  /\ UNCHANGED <<written, offline, setup, stage, kind, interval, results, counter, lock, todo, calls, snap,
                 mapIdx, bidx, reqs, job, ent, loaded, saved, jobFail, prev, lastSave>>

\* json.dump, the counter reset and the return to the caller
save_intermediate_dump(th) ==
  /\ stage = "s12" /\ AtPc(th, "save_dump")
  /\ files' = [files EXCEPT !["inter"] = Written(files["inter"], snap[th])]
  /\ lastSave' = snap[th]
  /\ written' = written \cup Keys(Parse(Written(files["inter"], snap[th])))
  /\ counter' = 0
  /\ saved' = TRUE
  /\ IF th = Main
       THEN SetPc(th, "rename") /\ UNCHANGED lock
       ELSE SetPc(th, "done") /\ lock' = Free
  /\ UNCHANGED <<offline, setup, stage, kind, interval, results, todo, calls, snap, mapIdx, bidx,
                 reqs, job, ent, loaded, jobFail, prev>>

\* the as_completed loop has seen every future
main12_wait ==
  /\ stage = "s12" /\ mainPc = "pool"
  /\ \A k \in 1..Len(todo) : tpc[todo[k]] = "done"
  /\ mainPc' = "final_save"
  /\ UNCHANGED <<written, offline, setup, stage, kind, interval, files, results, counter, lock, todo, tpc,
                 calls, snap, mapIdx, bidx, reqs, job, ent, loaded, saved,
                 jobFail, prev, lastSave>>

\* Path(intermediate_output_file).rename(args.output)
main12_rename ==
  /\ stage = "s12" /\ mainPc = "rename"
  /\ files' = [files EXCEPT !["out"] = files["inter"], !["inter"] = Absent]
  /\ mainPc' = "done"
  /\ UNCHANGED <<written, offline, setup, stage, kind, interval, results, counter, lock, todo, tpc, calls,
                 snap, mapIdx, bidx, reqs, job, ent, loaded, saved,
                 jobFail, prev, lastSave>>

\* ==================================================== step1.4 (s14)
\* a planner that takes a record with "error" for unresolved
items_to_process14_retry_failed(res) ==
  SelectSeq(InputSeq,
            LAMBDA p : ~(HasKey(res, ItemId(p)) /\ Get(res, ItemId(p)).st = "ok"))

\* _load and the work list of process_batch
items_to_process14(res) ==
  SelectSeq(InputSeq, LAMBDA p : ~HasKey(res, ItemId(p)))

main14_load ==
  /\ stage = "s14" /\ mainPc = "start" /\ ~FatalSetup(stage, setup)
  /\ LET res == PutAll(<<>>, SelectHasId(ReadUpToBad(Parse(files["out"]))))
         its == items_to_process14(res)
     IN  /\ results' = res
         /\ loaded' = Keys(res)
         /\ todo' = its
         /\ tpc' = Submitted(its)
         /\ mainPc' = IF its # <<>> THEN "pool"
                      ELSE IF res # <<>> THEN "final_save" ELSE "done"
  /\ UNCHANGED <<written, offline, setup, stage, kind, interval, files, counter, lock, calls, snap, mapIdx,
                 bidx, reqs, job, ent, saved, jobFail, prev, lastSave>>

\* the image check and encode_image of analyze_puzzle: a missing image is
\* an error record, without a remote call
Validated14(k) == IF k = "noimg" THEN "lock" ELSE "pace"

\* a worker thread starts worker(item) and analyze_puzzle, up to the sleep
worker_start(p) ==
  /\ stage = "s14" /\ mainPc \in {"pool", "shutdown"} /\ NextQueued(p)
  /\ tpc' = [tpc EXCEPT ![p] = Validated14(kind[p])]
  /\ UNCHANGED <<written, offline, setup, stage, kind, interval, files, mainPc, results, counter, lock, todo,
                 calls, snap, mapIdx, bidx, reqs, job, ent, loaded, saved,
                 jobFail, prev, lastSave>>

\* time.sleep(self.request_delay + jitter)
analyze_puzzle_pace(p) ==
  /\ stage = "s14" /\ tpc[p] = "pace"
  /\ tpc' = [tpc EXCEPT ![p] = "call"]
  /\ UNCHANGED <<written, offline, setup, stage, kind, interval, files, mainPc, results, counter, lock, todo,
                 calls, snap, mapIdx, bidx, reqs, job, ent, loaded, saved,
                 jobFail, prev, lastSave>>

\* an except clause that re-raises every error of the remote call
reraise14_every_error(k) == k \in {"rl", "err"}

\* the except clause of analyze_puzzle re-raises a rate limit error
reraise14(k) == k = "rl"

\* messages.create; a re-raised error goes to backoff, which tries again or,
\* after max_tries or max_time (budget), lets it leave worker
analyze_puzzle_call(p, budget) ==
  /\ stage = "s14" /\ tpc[p] = "call"
  /\ calls' = [calls EXCEPT ![p] = calls[p] + 1]
  /\ tpc' = [tpc EXCEPT ![p] =
       IF ~reraise14(kind[p]) THEN "lock"
       ELSE IF calls[p] + 1 >= MaxTries \/ budget THEN "exc" ELSE "backoff"]
  /\ UNCHANGED <<written, offline, setup, stage, kind, interval, files, mainPc, results, counter, lock, todo,
                 snap, mapIdx, bidx, reqs, job, ent, loaded, saved,
                 jobFail, prev, lastSave>>

\* the wait of backoff; analyze_puzzle then runs again from its first line,
\* up to the sleep
analyze_puzzle_backoff(p) ==
  /\ stage = "s14" /\ tpc[p] = "backoff"
  /\ tpc' = [tpc EXCEPT ![p] = Validated14(kind[p])]
  /\ UNCHANGED <<written, offline, setup, stage, kind, interval, files, mainPc, results, counter, lock, todo,
                 calls, snap, mapIdx, bidx, reqs, job, ent, loaded, saved,
                 jobFail, prev, lastSave>>

\* a worker that goes on to store its result without taking the lock
need_save_never(n) == FALSE

\* need_save = len(self.results) % save_interval == 0
need_save(n) == n % interval = 0

worker_lock_not_taken(p) ==
  /\ stage = "s14" /\ tpc[p] = "lock" /\ ItemId(p) # NoId
  /\ tpc' = [tpc EXCEPT ![p] = "locked"]
  /\ UNCHANGED <<written, offline, setup, stage, kind, interval, files, mainPc, results, counter, lock,
                 todo, calls, snap, mapIdx, bidx, reqs, job, ent, loaded, saved,
                 jobFail, prev, lastSave>>

\* worker: with self.lock, for an item that has an id: wait for the lock
\* and take it
worker_lock(p) ==
  /\ stage = "s14" /\ tpc[p] = "lock" /\ ItemId(p) # NoId /\ lock = Free
  /\ lock' = p
  /\ tpc' = [tpc EXCEPT ![p] = "locked"]
  /\ UNCHANGED <<written, offline, setup, stage, kind, interval, files, mainPc, results, counter, todo,
                 calls, snap, mapIdx, bidx, reqs, job, ent, loaded, saved,
                 jobFail, prev, lastSave>>

\* worker: inside the lock store the result and decide need_save, then
\* release; an item without id is not stored
worker_record(p) ==
  /\ stage = "s14"
  /\ IF ItemId(p) # NoId
       THEN /\ tpc[p] = "locked"
            /\ lock' = Free
            /\ results' = Put(results, Rec(ItemId(p), Outcome(p)))
            /\ tpc' = [tpc EXCEPT ![p] =
                 IF need_save(Len(Put(results, Rec(ItemId(p), Outcome(p)))))
                   THEN "save_enter" ELSE "done"]
       ELSE /\ tpc[p] = "lock"
            /\ tpc' = [tpc EXCEPT ![p] = "done"]
            /\ UNCHANGED <<results, lock>>
  /\ UNCHANGED <<written, offline, setup, stage, kind, interval, files, mainPc, counter, todo, calls,
                 snap, mapIdx, bidx, reqs, job, ent, loaded, saved, jobFail,
                 prev, lastSave>>

\* _save: with self.lock, wait for the lock and take it
save14_lock(th) ==
  /\ stage = "s14" /\ AtPc(th, IF th = Main THEN "final_save" ELSE "save_enter")
  /\ lock = Free
  /\ lock' = th
  /\ SetPc(th, "save_locked")
  /\ UNCHANGED <<written, offline, setup, stage, kind, interval, files, results, counter, todo, calls,
                 snap, mapIdx, bidx, reqs, job, ent, loaded, saved, jobFail,
                 prev, lastSave>>

\* _save: inside the lock filter and sort, then release the lock
save14_snapshot(th) ==
  /\ stage = "s14" /\ AtPc(th, "save_locked")
  /\ snap' = [snap EXCEPT ![th] = SortById(SelectHasId(results))]
  /\ lock' = Free
  /\ SetPc(th, "save_open")
  /\ UNCHANGED <<written, offline, setup, stage, kind, interval, files, results, counter, todo, calls,
                 mapIdx, bidx, reqs, job, ent, loaded, saved, jobFail, prev, lastSave>>

\* _save: mkdir and open(path, "w"), outside the lock
save14_open(th) ==
  /\ stage = "s14" /\ AtPc(th, "save_open")
  /\ files' = [files EXCEPT !["out"] = Torn]
  /\ SetPc(th, "save_dump")
  /\ UNCHANGED <<written, offline, setup, stage, kind, interval, results, counter, lock, todo, calls, snap,
                 mapIdx, bidx, reqs, job, ent, loaded, saved, jobFail, prev, lastSave>>

\* _save: json.dump, then the caller returns
save14_dump(th) ==
  /\ stage = "s14" /\ AtPc(th, "save_dump")
  /\ files' = [files EXCEPT !["out"] = Written(files["out"], snap[th])]
  /\ lastSave' = snap[th]
  /\ written' = written \cup Keys(Parse(Written(files["out"], snap[th])))
  /\ saved' = TRUE
  /\ SetPc(th, "done")
  /\ UNCHANGED <<offline, setup, stage, kind, interval, results, counter, lock, todo, calls, snap,
                 mapIdx, bidx, reqs, job, ent, loaded, jobFail, prev>>

\* list(executor.map(...)): the result of the next future in submission
\* order; an exception cancels the futures that have not started
main14_map ==
  /\ stage = "s14" /\ mainPc = "pool" /\ mapIdx <= Len(todo)
  /\ tpc[todo[mapIdx]] \in {"done", "exc"}
  /\ IF tpc[todo[mapIdx]] = "done"
       THEN mapIdx' = mapIdx + 1 /\ UNCHANGED <<mainPc, tpc>>
       ELSE /\ tpc' = [p \in Pos |-> IF tpc[p] = "pending" THEN "cancelled" ELSE tpc[p]]
            /\ mainPc' = "shutdown"
            /\ UNCHANGED mapIdx
  /\ UNCHANGED <<written, offline, setup, stage, kind, interval, files, results, counter, lock, todo, calls,
                 snap, bidx, reqs, job, ent, loaded, saved, jobFail, prev, lastSave>>

\* every future has returned: the pool is left, the final save is next
main14_pool_exit ==
  /\ stage = "s14" /\ mainPc = "pool" /\ mapIdx > Len(todo)
  /\ mainPc' = "final_save"
  /\ UNCHANGED <<written, offline, setup, stage, kind, interval, files, results, counter, lock, todo, tpc,
                 calls, snap, mapIdx, bidx, reqs, job, ent, loaded, saved,
                 jobFail, prev, lastSave>>

\* the exception leaves the with block once the running workers are over,
\* then process_batch, and main exits with status 1
main14_shutdown ==
  /\ stage = "s14" /\ mainPc = "shutdown" /\ NumRunning = 0
  /\ mainPc' = "aborted"
  /\ UNCHANGED <<written, offline, setup, stage, kind, interval, files, results, counter, lock, todo, tpc,
                 calls, snap, mapIdx, bidx, reqs, job, ent, loaded, saved,
                 jobFail, prev, lastSave>>

\* ========================================== step1.6 and step1.8 (batch)
\* _load and the todo list of process_batch (step1.6) / process (step1.8)
todo_batch(res) ==
  SelectSeq(InputSeq, LAMBDA p : ~HasKey(res, ItemId(p)))

batch_load ==
  /\ stage \in BatchStages /\ mainPc = "start" /\ ~FatalSetup(stage, setup)
  /\ LET res == PutAll(<<>>, ReadUpToBad(Parse(files["out"])))
         its == todo_batch(res)
     IN  /\ results' = res
         /\ loaded' = Keys(res)
         /\ todo' = its
         /\ mainPc' = IF its = <<>> THEN "done" ELSE "chunk"
  /\ UNCHANGED <<written, offline, setup, stage, kind, interval, files, counter, lock, tpc, calls, snap,
                 mapIdx, bidx, reqs, job, ent, saved, jobFail, prev, lastSave>>

\* a slice that takes one item too many
Chunk_overlapping(ps, idx) ==
  SubSeq(ps, idx + 1, IF idx + BatchSize + 1 <= Len(ps) THEN idx + BatchSize + 1 ELSE Len(ps))

\* todo[idx : idx + batch_size]
Chunk(ps, idx) ==
  SubSeq(ps, idx + 1, IF idx + BatchSize <= Len(ps) THEN idx + BatchSize ELSE Len(ps))

\* _prepare_batch_requests / _prepare_requests: an item whose image cannot
\* be encoded is skipped
prepare_requests(chunk, res) ==
  SelectSeq(chunk, LAMBDA p : ~HasKey(res, ItemId(p)) /\ kind[p] # "noimg")

\* the head of the chunk loop; a chunk without requests is skipped
batch_prepare ==
  /\ stage \in BatchStages /\ mainPc = "chunk" /\ bidx < Len(todo)
  /\ LET rq == prepare_requests(Chunk(todo, bidx), results)
     IN  IF rq = <<>>
           THEN /\ bidx' = bidx + BatchSize
                /\ UNCHANGED <<reqs, mainPc>>
           ELSE /\ reqs' = rq
                /\ mainPc' = "submit"
                /\ UNCHANGED bidx
  /\ UNCHANGED <<written, offline, setup, stage, kind, interval, files, results, counter, lock, todo, tpc,
                 calls, snap, mapIdx, job, ent, loaded, saved, jobFail, prev, lastSave>>

\* an exception that leaves process_batch
batch_error_aborts == "aborted"

\* except Exception as e: print("Batch error:", e); the turn goes on after
\* the try block
batch_error == "after_chunk"

\* batches.create(requests=reqs); raises: the call raised, as it does on
\* every call of a client that has no key
batch_submit(raises) ==
  /\ stage \in BatchStages /\ mainPc = "submit"
  /\ setup = "nocred" => raises
  /\ calls' = [p \in Pos |->
       IF \E k \in 1..Len(reqs) : reqs[k] = p THEN calls[p] + 1 ELSE calls[p]]
  /\ IF raises
       THEN mainPc' = batch_error /\ jobFail' = TRUE /\ UNCHANGED job
       ELSE mainPc' = "poll" /\ job' = "submitted" /\ UNCHANGED jobFail
  /\ ent' = 0
  /\ UNCHANGED <<written, offline, setup, stage, kind, interval, files, results, counter, lock, todo, tpc,
                 snap, mapIdx, bidx, reqs, loaded, saved, prev, lastSave>>

\* a job that never ends
next_status_stuck(status) == "processing"

\* processing_status of a job the provider works on
next_status(status) == IF status = "submitted" THEN "processing" ELSE "ended"

\* the provider works on the job
provider_progress ==
  /\ stage \in BatchStages /\ job \in {"submitted", "processing"}
  /\ job' = next_status(job)
  /\ UNCHANGED <<written, offline, setup, stage, kind, interval, files, mainPc, results, counter, lock, todo,
                 tpc, calls, snap, mapIdx, bidx, reqs, ent, loaded, saved,
                 jobFail, prev, lastSave>>

status_ended_any(status) == TRUE

\* if status == "ended": break
status_ended(status) == status = "ended"

\* batches.retrieve(bid).processing_status, then break or sleep
batch_poll(raises) ==
  /\ stage \in BatchStages /\ mainPc = "poll"
  /\ IF raises
       THEN mainPc' = batch_error /\ jobFail' = TRUE
       ELSE /\ mainPc' = IF status_ended(job) THEN "results" ELSE "poll"
            /\ UNCHANGED jobFail
  /\ UNCHANGED <<written, offline, setup, stage, kind, interval, files, results, counter, lock, todo, tpc,
                 calls, snap, mapIdx, bidx, reqs, job, ent, loaded, saved,
                 prev, lastSave>>

\* "custom_id": str(pid): the text of an identifier
custom_id(i) ==
  IF i > 0 THEN <<"digits", i>>
  ELSE IF 0 - i <= NItems THEN <<"digits", 0 - i>> ELSE <<"letters", 0 - i>>

\* int(ent.custom_id) raises ValueError on a text that is not a number
int_raises(cid) == cid[1] # "digits"

\* pid = int(ent.custom_id)
int_of(cid) == cid[2]

\* one turn of the loop over batches.results(bid); raises: the iterator
\* raised before this entry
batch_result(raises) ==
  /\ stage \in BatchStages /\ mainPc = "results" /\ ent < Len(reqs)
  /\ IF raises \/ int_raises(custom_id(ItemId(reqs[ent + 1])))
       THEN /\ mainPc' = batch_error /\ jobFail' = TRUE
            /\ UNCHANGED <<results, ent>>
       ELSE /\ results' = Put(results, Rec(int_of(custom_id(ItemId(reqs[ent + 1]))),
                                          Outcome(reqs[ent + 1])))
            /\ ent' = ent + 1
            /\ UNCHANGED <<mainPc, jobFail>>
  /\ UNCHANGED <<written, offline, setup, stage, kind, interval, files, counter, lock, todo, tpc, calls, snap,
                 mapIdx, bidx, reqs, job, loaded, saved, prev, lastSave>>

\* the loop over the entries is over
batch_results_end ==
  /\ stage \in BatchStages /\ mainPc = "results" /\ ent = Len(reqs)
  /\ mainPc' = "after_chunk"
  /\ UNCHANGED <<written, offline, setup, stage, kind, interval, files, results, counter, lock, todo, tpc,
                 calls, snap, mapIdx, bidx, reqs, job, ent, loaded, saved,
                 jobFail, prev, lastSave>>

\* (idx // batch_size + 1) % save_interval == 0
SaveDue(idx) == ((idx \div BatchSize) + 1) % interval = 0

\* the end of a turn of the chunk loop
batch_after_chunk ==
  /\ stage \in BatchStages /\ mainPc = "after_chunk"
  /\ job' = "none"
  /\ IF SaveDue(bidx)
       THEN mainPc' = "chunk_save_open" /\ UNCHANGED bidx
       ELSE mainPc' = "chunk" /\ bidx' = bidx + BatchSize
  /\ UNCHANGED <<written, offline, setup, stage, kind, interval, files, results, counter, lock, todo, tpc,
                 calls, snap, mapIdx, reqs, ent, loaded, saved, jobFail,
                 prev, lastSave>>

\* the chunk loop is over
batch_loop_end ==
  /\ stage \in BatchStages /\ mainPc = "chunk" /\ bidx >= Len(todo)
  /\ mainPc' = "final_save_open"
  /\ UNCHANGED <<written, offline, setup, stage, kind, interval, files, results, counter, lock, todo, tpc,
                 calls, snap, mapIdx, bidx, reqs, job, ent, loaded, saved,
                 jobFail, prev, lastSave>>

\* _save: mkdir and open(path, "w")
batch_save_open ==
  /\ stage \in BatchStages /\ mainPc \in {"chunk_save_open", "final_save_open"}
  /\ files' = [files EXCEPT !["out"] = Torn]
  /\ mainPc' = IF mainPc = "chunk_save_open" THEN "chunk_save_dump" ELSE "final_save_dump"
  /\ UNCHANGED <<written, offline, setup, stage, kind, interval, results, counter, lock, todo, tpc, calls,
                 snap, mapIdx, bidx, reqs, job, ent, loaded, saved, jobFail,
                 prev, lastSave>>

\* _save: json.dump(sorted(self.results.values(), key=id)), then the caller
\* goes on
batch_save_dump ==
  /\ stage \in BatchStages /\ mainPc \in {"chunk_save_dump", "final_save_dump"}
  /\ files' = [files EXCEPT !["out"] = Written(files["out"], SortById(results))]
  /\ lastSave' = SortById(results)
  /\ written' = written \cup Keys(Parse(Written(files["out"], SortById(results))))
  /\ saved' = TRUE
  /\ IF mainPc = "chunk_save_dump"
       THEN mainPc' = "chunk" /\ bidx' = bidx + BatchSize
       ELSE mainPc' = "done" /\ UNCHANGED bidx
  /\ UNCHANGED <<offline, setup, stage, kind, interval, results, counter, lock, todo, tpc, calls,
                 snap, mapIdx, reqs, job, ent, loaded, jobFail, prev>>

\* ====================================================== process boundary
Ended == mainPc \in {"done", "aborted"}

\* the run has left at its start-up checks
Exited == mainPc = "exit1"

\* the process is killed; the next run starts with the files as they are
Kill ==
  /\ ~Ended /\ ~Exited
  /\ prev' = [end |-> "killed", files |-> files, jobFail |-> jobFail]
  /\ FreshMemory
  /\ UNCHANGED <<offline, setup, stage, kind, interval, files, lastSave>>

\* the stage is run again after a run that ended by itself
Rerun ==
  /\ Ended \/ Exited
  /\ prev' = [end |-> mainPc, files |-> files, jobFail |-> jobFail]
  /\ FreshMemory
  /\ UNCHANGED <<offline, setup, stage, kind, interval, files, lastSave>>

Next ==
  \/ setup_exit
  \/ main12_load
  \/ \E p \in Pos : translate_item_start(p)
  \/ \E p \in Pos : translate_item_pace(p)
  \/ \E p \in Pos, b \in BOOLEAN : translate_with_retry(p, b)
  \/ \E p \in Pos : translate_backoff(p)
  \/ \E p \in Pos : translate_item_lock(p)
  \/ \E p \in Pos : translate_item_record(p)
  \/ \E th \in Threads : save_intermediate_lock(th)
  \/ \E th \in Threads : save_intermediate_snapshot(th)
  \/ \E th \in Threads : save_intermediate_open(th)
  \/ \E th \in Threads : save_intermediate_dump(th)
  \/ main12_wait
  \/ main12_rename
  \/ main14_load
  \/ \E p \in Pos : worker_start(p)
  \/ \E p \in Pos : analyze_puzzle_pace(p)
  \/ \E p \in Pos, b \in BOOLEAN : analyze_puzzle_call(p, b)
  \/ \E p \in Pos : analyze_puzzle_backoff(p)
  \/ \E p \in Pos : worker_lock(p)
  \/ \E p \in Pos : worker_record(p)
  \/ \E th \in Threads : save14_lock(th)
  \/ \E th \in Threads : save14_snapshot(th)
  \/ \E th \in Threads : save14_open(th)
  \/ \E th \in Threads : save14_dump(th)
  \/ main14_map
  \/ main14_pool_exit
  \/ main14_shutdown
  \/ batch_load
  \/ batch_prepare
  \/ \E b \in BOOLEAN : batch_submit(b)
  \/ provider_progress
  \/ \E b \in BOOLEAN : batch_poll(b)
  \/ \E b \in BOOLEAN : batch_result(b)
  \/ batch_results_end
  \/ batch_after_chunk
  \/ batch_loop_end
  \/ batch_save_open
  \/ batch_save_dump
  \/ Kill
  \/ Rerun

Spec == Init /\ [][Next]_vars

\* ------------------------------------------- the load of any checkpoint
\* What a first run may find at the path of its checkpoint: no file, an
\* empty or unparseable file, or a JSON list of records of any identifier
\* of the input (with a result, with an error, or "blank": with neither),
\* records without id and entries that are no object.
Entries ==
  {Rec(i, st) : i \in 1..NItems, st \in {"ok", "err", "blank"}}
    \cup {Rec(NoId, "ok"), Bad}

FoundFiles ==
  {Absent, Torn} \cup
  {FileOf(recs) : recs \in UNION {[1..n -> Entries] : n \in 1..MaxFileLen}}

\* the path of the checkpoint a run loads
LoadPath(s) == IF s = "s12" THEN "inter" ELSE "out"

InitLoad ==
  /\ stage \in Stages
  /\ kind = [p \in Pos |-> "ok"]
  /\ interval = SaveInterval
  /\ \E found \in FoundFiles :
        files = [f \in {"inter", "out"} |-> IF f = LoadPath(stage) THEN found ELSE Absent]
  /\ mainPc = "start"
  /\ results = <<>>
  /\ counter = 0
  /\ lock = Free
  /\ todo = <<>>
  /\ tpc = [p \in Pos |-> "none"]
  /\ calls = [p \in Pos |-> 0]
  /\ snap = [th \in Threads |-> <<>>]
  /\ mapIdx = 1
  /\ bidx = 0
  /\ reqs = <<>>
  /\ job = "none"
  /\ ent = 0
  /\ loaded = {}
  /\ saved = FALSE
  /\ jobFail = FALSE
  /\ prev = NoPrev
  /\ lastSave = <<>>
  /\ setup = "ok"
  /\ written = {}
  /\ NoOffline

NextLoad ==
  \/ main12_load
  \/ main14_load
  \/ batch_load

SpecLoad == InitLoad /\ [][NextLoad]_vars

\* ------------------------------------ one run resumed from a checkpoint
\* The run finds a checkpoint with one resolved record, left by a run that
\* was killed: the record of an input identifier or of an identifier that
\* is not in the input (NItems + 1); the outcome it records need not be
\* the outcome the item has in this run.
ResumeFiles ==
  {FileOf(<<Rec(i, st)>>) : i \in 1..(NItems + 1), st \in {"ok", "err"}}

InitResume ==
  /\ stage \in Stages
  /\ kind \in [Pos -> KindsOf(stage)]
  /\ Cardinality({p \in Pos : kind[p] = "rl"}) <= MaxRateLimited
  /\ Cardinality({p \in Pos : kind[p] # "ok"}) <= MaxFaulty
  /\ interval \in {SaveInterval, 4 * SaveInterval}
  /\ \E found \in ResumeFiles :
        /\ files = [f \in {"inter", "out"} |->
                      IF f = LoadPath(stage) THEN found ELSE Absent]
        /\ prev = [end |-> "killed", files |-> files, jobFail |-> FALSE]
  /\ mainPc = "start"
  /\ results = <<>>
  /\ counter = 0
  /\ lock = Free
  /\ todo = <<>>
  /\ tpc = [p \in Pos |-> "none"]
  /\ calls = [p \in Pos |-> 0]
  /\ snap = [th \in Threads |-> <<>>]
  /\ mapIdx = 1
  /\ bidx = 0
  /\ reqs = <<>>
  /\ job = "none"
  /\ ent = 0
  /\ loaded = {}
  /\ saved = FALSE
  /\ jobFail = FALSE
  /\ lastSave = <<>>
  /\ setup = "ok"
  /\ written = {}
  /\ NoOffline

\* the steps of one run that has passed its start-up checks
NextRun ==
  \/ main12_load
  \/ \E p \in Pos : translate_item_start(p)
  \/ \E p \in Pos : translate_item_pace(p)
  \/ \E p \in Pos, b \in BOOLEAN : translate_with_retry(p, b)
  \/ \E p \in Pos : translate_backoff(p)
  \/ \E p \in Pos : translate_item_lock(p)
  \/ \E p \in Pos : translate_item_record(p)
  \/ \E th \in Threads : save_intermediate_lock(th)
  \/ \E th \in Threads : save_intermediate_snapshot(th)
  \/ \E th \in Threads : save_intermediate_open(th)
  \/ \E th \in Threads : save_intermediate_dump(th)
  \/ main12_wait
  \/ main12_rename
  \/ main14_load
  \/ \E p \in Pos : worker_start(p)
  \/ \E p \in Pos : analyze_puzzle_pace(p)
  \/ \E p \in Pos, b \in BOOLEAN : analyze_puzzle_call(p, b)
  \/ \E p \in Pos : analyze_puzzle_backoff(p)
  \/ \E p \in Pos : worker_lock(p)
  \/ \E p \in Pos : worker_record(p)
  \/ \E th \in Threads : save14_lock(th)
  \/ \E th \in Threads : save14_snapshot(th)
  \/ \E th \in Threads : save14_open(th)
  \/ \E th \in Threads : save14_dump(th)
  \/ main14_map
  \/ main14_pool_exit
  \/ main14_shutdown
  \/ batch_load
  \/ batch_prepare
  \/ \E b \in BOOLEAN : batch_submit(b)
  \/ provider_progress
  \/ \E b \in BOOLEAN : batch_poll(b)
  \/ \E b \in BOOLEAN : batch_result(b)
  \/ batch_results_end
  \/ batch_after_chunk
  \/ batch_loop_end
  \/ batch_save_open
  \/ batch_save_dump

SpecResume == InitResume /\ [][NextRun]_vars

\* ------------------------------------- one batch run that is not killed
\* The run starts without a checkpoint. Every step of
\* the main thread is taken when it stays possible, each remote call
\* returning or raising, except that a status call is not bound to raise;
\* the provider goes on with a job it has accepted.
InitBatch ==
  /\ Init
  /\ stage \in BatchStages

NextBatch ==
  \/ setup_exit
  \/ batch_load
  \/ batch_prepare
  \/ \E raises \in BOOLEAN : batch_submit(raises)
  \/ provider_progress
  \/ \E raises \in BOOLEAN : batch_poll(raises)
  \/ \E raises \in BOOLEAN : batch_result(raises)
  \/ batch_results_end
  \/ batch_after_chunk
  \/ batch_loop_end
  \/ batch_save_open
  \/ batch_save_dump

BatchStep ==
  \/ setup_exit
  \/ batch_load
  \/ batch_prepare
  \/ \E raises \in BOOLEAN : batch_submit(raises)
  \/ batch_poll(FALSE)
  \/ \E raises \in BOOLEAN : batch_result(raises)
  \/ batch_results_end
  \/ batch_after_chunk
  \/ batch_loop_end
  \/ batch_save_open
  \/ batch_save_dump

SpecBatchLive ==
  /\ InitBatch /\ [][NextBatch]_vars
  /\ WF_vars(BatchStep)
  /\ WF_vars(provider_progress)

\* ------------------------------------------- the parsing of a response
\* A response text is a sequence of: the opening tag the stage looks for,
\* its closing tag, a whitespace character, any other character.
Chars == {"open", "close", "ws", "x"}

Texts == UNION {[1..n -> Chars] : n \in 0..MaxRespLen}

\* re.search(r"<tag>(.*?)</tag>", txt, re.DOTALL) finds a match
HasMatch(txt) ==
  \E i \in 1..Len(txt), j \in 1..Len(txt) :
     i < j /\ txt[i] = "open" /\ txt[j] = "close"

\* group(1) of the leftmost match: from the first opening tag that has a
\* closing tag after it to the first closing tag after it
group1(txt) ==
  LET i == CHOOSE a \in 1..Len(txt) :
             /\ txt[a] = "open" /\ \E b \in (a + 1)..Len(txt) : txt[b] = "close"
             /\ \A c \in 1..(a - 1) :
                   ~(txt[c] = "open" /\ \E b \in (c + 1)..Len(txt) : txt[b] = "close")
      j == CHOOSE b \in (i + 1)..Len(txt) :
             txt[b] = "close" /\ \A c \in (i + 1)..(b - 1) : txt[c] # "close"
  IN  SubSeq(txt, i + 1, j - 1)

\* str.strip()
RECURSIVE strip(_)
strip(txt) ==
  IF txt = <<>> THEN <<>>
  ELSE IF Head(txt) = "ws" THEN strip(Tail(txt))
  ELSE IF txt[Len(txt)] = "ws" THEN strip(SubSeq(txt, 1, Len(txt) - 1))
  ELSE txt

\* step1.2: the pattern has \s* on both sides of the group, so group(1)
\* comes without the whitespace around it
translation(txt) ==
  IF HasMatch(txt) THEN strip(strip(group1(txt))) ELSE strip(txt)

\* step1.4: "answer": answer_match.group(1).strip() if answer_match else ""
answer(txt) == IF HasMatch(txt) THEN strip(group1(txt)) ELSE <<>>

\* step1.6 take(tag), step1.8 grab(tag): m.group(1).strip() if m else ""
take(txt) == IF HasMatch(txt) THEN strip(group1(txt)) ELSE <<>>

\* the engine at rest, for the specifications of the pure functions
EngineIdle ==
  /\ kind = [p \in Pos |-> "ok"]
  /\ interval = SaveInterval
  /\ files = [f \in {"inter", "out"} |-> Absent]
  /\ mainPc = "start"
  /\ results = <<>>
  /\ counter = 0
  /\ lock = Free
  /\ todo = <<>>
  /\ tpc = [p \in Pos |-> "none"]
  /\ calls = [p \in Pos |-> 0]
  /\ snap = [th \in Threads |-> <<>>]
  /\ mapIdx = 1
  /\ bidx = 0
  /\ reqs = <<>>
  /\ job = "none"
  /\ ent = 0
  /\ loaded = {}
  /\ saved = FALSE
  /\ jobFail = FALSE
  /\ prev = NoPrev
  /\ lastSave = <<>>
  /\ setup = "ok"
  /\ written = {}

engine == <<stage, kind, interval, files, results, counter, lock, todo, tpc,
            calls, snap, mapIdx, bidx, reqs, job, ent, loaded, saved,
            jobFail, prev, lastSave, setup, written>>

InitParse ==
  /\ stage \in Stages
  /\ EngineIdle
  /\ response_text \in Texts
  /\ payload = <<>>
  /\ puzzle_results = <<>>
  /\ merged_questions = {}
  /\ filtered_questions = <<>>

\* step1.2: translation = match.group(1).strip() if match else
\* response_text.strip()
parse12 ==
  /\ stage = "s12" /\ mainPc = "start"
  /\ payload' = translation(response_text)
  /\ mainPc' = "parsed"
  /\ UNCHANGED <<engine, response_text, puzzle_results, merged_questions,
                 filtered_questions>>

\* step1.4: the "answer" field of the record
parse14 ==
  /\ stage = "s14" /\ mainPc = "start"
  /\ payload' = answer(response_text)
  /\ mainPc' = "parsed"
  /\ UNCHANGED <<engine, response_text, puzzle_results, merged_questions,
                 filtered_questions>>

\* step1.6 and step1.8: a field of the record
parse_batch ==
  /\ stage \in BatchStages /\ mainPc = "start"
  /\ payload' = take(response_text)
  /\ mainPc' = "parsed"
  /\ UNCHANGED <<engine, response_text, puzzle_results, merged_questions,
                 filtered_questions>>

NextParse ==
  \/ parse12
  \/ parse14
  \/ parse_batch

SpecParse == InitParse /\ [][NextParse]_vars

\* ------------------------------------- step1.5 (s15): the filter stage
\* An answer is a short string of: the letters "A", "a", "B" and a
\* whitespace character.
AnswerTexts == {<<"A">>, <<"a">>, <<"ws", "A">>, <<"B">>, <<>>}

CorrectTexts == {<<"A">>, <<"B", "ws">>, <<>>}

\* str.upper()
upper(txt) == [k \in 1..Len(txt) |-> IF txt[k] = "a" THEN "A" ELSE txt[k]]

\* The records step1.4 writes: a success record has "answer" and
\* "correct_answer" (has), a failure record has "error" and neither.
VerifyRecs ==
  {[id |-> i, has |-> TRUE, answer |-> a, correct_answer |-> c] :
     i \in 0..MaxResults, a \in AnswerTexts, c \in CorrectTexts}
  \cup {[id |-> i, has |-> FALSE, answer |-> <<>>, correct_answer |-> <<>>] :
          i \in 0..MaxResults}

\* a results file: its k-th record has the id k or no id
ResultFiles ==
  UNION {{f \in [1..n -> VerifyRecs] : \A k \in 1..n : f[k].id \in {k, NoId}} :
           n \in 0..MaxResults}

InitFilter ==
  /\ stage = "s15"
  /\ EngineIdle
  /\ response_text = <<>>
  /\ payload = <<>>
  /\ puzzle_results \in ResultFiles
  /\ merged_questions \in SUBSET (1..MaxResults)
  /\ filtered_questions = <<>>

\* if "answer" in item and "correct_answer" in item: prediction == correct
\* and item_id is not None
is_correct(item) ==
  /\ item.has
  /\ upper(strip(item.answer)) = upper(strip(item.correct_answer))
  /\ item.id # NoId

\* every kept question gets the same new id
id_mapping_same(k) == 0

\* id_mapping: enumerate(correct_ids) numbers the ids from 0
id_mapping(k) == k - 1

\* the loop over correct_ids: the question of an id that is in the
\* questions file is copied with its new id
RECURSIVE filtered(_, _)
filtered(correct_ids, k) ==
  IF k > Len(correct_ids) THEN <<>>
  ELSE (IF correct_ids[k] \in merged_questions
          THEN <<[id |-> id_mapping(k), orig |-> correct_ids[k]]>>
          ELSE <<>>) \o filtered(correct_ids, k + 1)

\* filter_correct_predictions up to the dump of 1.5_questions.json; with
\* no correct id it exits with status 0 and writes nothing
filter_correct_predictions ==
  /\ stage = "s15" /\ mainPc = "start"
  /\ LET correct == SelectSeq(puzzle_results, is_correct)
         correct_ids == [k \in 1..Len(correct) |-> correct[k].id]
     IN  IF correct_ids = <<>>
           THEN mainPc' = "exit0" /\ UNCHANGED filtered_questions
           ELSE /\ filtered_questions' = filtered(correct_ids, 1)
                /\ mainPc' = "done"
  /\ UNCHANGED <<engine, response_text, payload, puzzle_results, merged_questions>>

NextFilter == filter_correct_predictions

SpecFilter == InitFilter /\ [][NextFilter]_vars

\* -------------------------- one batch run over integer and string ids
InitIds ==
  /\ stage \in BatchStages
  /\ kind \in [Pos -> KindsOf(stage) \cup {"numstr", "str"}]
  /\ Cardinality({p \in Pos : kind[p] # "ok"}) <= MaxFaulty
  /\ interval \in {SaveInterval, 4 * SaveInterval}
  /\ files = [f \in {"inter", "out"} |-> Absent]
  /\ mainPc = "start"
  /\ results = <<>>
  /\ counter = 0
  /\ lock = Free
  /\ todo = <<>>
  /\ tpc = [p \in Pos |-> "none"]
  /\ calls = [p \in Pos |-> 0]
  /\ snap = [th \in Threads |-> <<>>]
  /\ mapIdx = 1
  /\ bidx = 0
  /\ reqs = <<>>
  /\ job = "none"
  /\ ent = 0
  /\ loaded = {}
  /\ saved = FALSE
  /\ jobFail = FALSE
  /\ prev = NoPrev
  /\ lastSave = <<>>
  /\ setup \in {"ok", "nocred", "notmpl"}
  /\ written = {}
  /\ NoOffline

SpecIds == InitIds /\ [][NextBatch]_vars

\* ================================================================ claims
TodoSet == {todo[k] : k \in 1..Len(todo)}

\* the pending items that have an identifier
PendingWithId == {p \in TodoSet : ItemId(p) # NoId}

Recorded(p) == HasKey(results, ItemId(p))

RecordedAs(p, s) == Recorded(p) /\ Get(results, ItemId(p)).st = s

\* the path of the checkpoint after a run that ended by itself
FinalPath(s) == "out"

\* C1: in thread-pool mode, when a run has ended without being killed,
\* every pending item that has an identifier has a record in the
\* CheckpointSet, whatever the remote calls did.
C1_EveryPendingRecorded ==
  (stage \in ThreadStages /\ Ended) => \A p \in PendingWithId : Recorded(p)

\* C2: in batch mode, when a run has ended, every pending item has a record
\* in the CheckpointSet, also an item whose image cannot be encoded and the
\* items of a chunk whose job raised.
C2_BatchEveryPendingRecorded ==
  (stage \in BatchStages /\ Ended) => \A p \in TodoSet : Recorded(p)

\* a task that waits for the lock while the lock is held
BlockedOnLock(p) ==
  \/ tpc[p] = "save_enter"
  \/ tpc[p] = "lock" /\ lock # Free

\* C3: in step1.2 a save triggered by the counter runs inside the locked
\* section and the run goes on: there is no state in which every worker
\* that runs a task is blocked on results_lock and no task can start.
C3_NoLockDeadlock ==
  ~(/\ stage = "s12"
    /\ NumRunning > 0
    /\ \A p \in Pos : Running(p) => BlockedOnLock(p)
    /\ \A p \in Pos : ~NextQueued(p))

\* C4: an identifier that had a resolved record in the checkpoint loaded at
\* the start of the run is never the subject of a remote call or of a batch
\* request in that run.
C4_Dedup == \A p \in Pos : ItemId(p) \in loaded => calls[p] = 0

\* a run that resumed from a partial checkpoint and made a remote call
C4_Witness ==
  /\ loaded # {}
  /\ \E p \in Pos : calls[p] > 0
  /\ \E p \in Pos : ItemId(p) \in loaded /\ Outcome(p) = "err"

\* the identifiers of the records a finished run left on disk
PersistedIds(fs) == Keys(Parse(fs["inter"])) \cup Keys(Parse(fs["out"]))

\* C5: a run started after a run that finished normally has loaded every
\* record that run left on disk.
C5_ResumeLoopClosed ==
  (prev.end = "done" /\ mainPc # "start") => PersistedIds(prev.files) \subseteq loaded

\* C6: a run that follows a run which ended by itself, with the same input
\* and the same outcome of every remote call, leaves the files as the
\* previous run left them.
C6_IdempotentResume ==
  (/\ Ended
   /\ prev.end \in {"done", "aborted"}
   /\ ~jobFail /\ ~prev.jobFail) => files = prev.files

\* C7: when every input identifier had a resolved record in the loaded
\* checkpoint, the run that has ended made no remote call, performed a save
\* and left the loaded records, sorted by identifier, in the checkpoint file.
C7_EmptyResume ==
  (Ended /\ \A p \in Pos : ItemId(p) # NoId /\ ItemId(p) \in loaded) =>
     /\ \A p \in Pos : calls[p] = 0
     /\ saved
     /\ files[FinalPath(stage)] = FileOf(SortById(SelectHasId(results)))
     /\ Keys(results) = loaded

\* C8: in thread-pool mode no exception leaves a worker: no task ends with
\* an exception or is cancelled, and a run that has ended has a record with
\* the item's outcome for every pending item and has made its final save.
C8_NeverRaises ==
  stage \in ThreadStages =>
     /\ \A p \in Pos : tpc[p] \notin {"exc", "cancelled"}
     /\ Ended => /\ mainPc = "done"
                 /\ saved
                 /\ \A p \in PendingWithId : RecordedAs(p, Outcome(p))

\* C9: no remote call is attempted more than 8 times in a run, and when a
\* run in thread-pool mode has ended, a pending item that was rate limited
\* on every attempt has a failure record.
C9_RetryCeiling ==
  /\ \A p \in Pos : calls[p] <= MaxTries
  /\ (stage \in ThreadStages /\ Ended) =>
        \A p \in PendingWithId : kind[p] = "rl" => RecordedAs(p, "err")

\* exactly one pending item fails with an error that is not retried, every
\* other pending item succeeds
OneFailing(f) ==
  /\ f \in TodoSet
  /\ kind[f] \in {"err", "noimg"}
  /\ \A q \in TodoSet \ {f} : kind[q] = "ok"

C11_KillSafeSave ==
  (prev.end = "killed" /\ mainPc \notin {"start", "exit1"} /\ ~saved) =>
     /\ Keys(lastSave) \subseteq loaded
     /\ \A p \in Pos :
           (ItemId(p) # NoId /\ ItemId(p) \notin loaded) => p \in TodoSet

\* a thread is in a save of the checkpoint between its snapshot and the end
\* of its write
InSave(th) == AtPc(th, "save_open") \/ AtPc(th, "save_dump")

\* C12: no two saves of the same checkpoint file are in progress at once:
\* at most one thread is between the snapshot and the end of the write.
C12_SavesSerialised ==
  \A t1 \in Threads, t2 \in Threads : (InSave(t1) /\ InSave(t2)) => t1 = t2

Ascending(recs) ==
  \A j \in 1..Len(recs), k \in 1..Len(recs) : j < k => recs[j].id <= recs[k].id

\* C13: in every stage, the records of a checkpoint file that a save (or
\* the rename of step1.2) has written are in ascending order of identifier,
\* whatever the order in which the items completed.
C13_SortInvariant ==
  \A f \in {"inter", "out"} : files[f].st = "ok" => Ascending(files[f].recs)

\* a save of this run has written two records or more while the results
\* dict holds them in another order
C13_Witness ==
  /\ saved /\ ~Ascending(results)
  /\ \E f \in {"inter", "out"} : files[f].st = "ok" /\ Len(files[f].recs) >= 2

\* the checkpoint file the saves of a stage write
CheckpointPath(s) == IF s = "s12" THEN "inter" ELSE "out"

\* a step in which a save comes to its end
SaveCompletes ==
  \/ \E p \in Pos : tpc[p] = "save_dump" /\ tpc'[p] = "done"
  \/ mainPc = "save_dump" /\ mainPc' \in {"rename", "done"}
  \/ mainPc = "chunk_save_dump" /\ mainPc' = "chunk"
  \/ mainPc = "final_save_dump" /\ mainPc' = "done"

\* C14: when a save has come to its end, the checkpoint file holds exactly
\* one record for each identifier that was completed (loaded or recorded)
\* before the save began, and no identifier twice.
C14_OneRecordPerId ==
  [][SaveCompletes =>
       LET f == files'[CheckpointPath(stage)]
       IN  /\ f.st = "ok"
           /\ Keys(f.recs) = Keys(lastSave')
           /\ Len(f.recs) = Cardinality(Keys(f.recs))]_vars

\* C15: an input item without an identifier is dropped before dispatch: it
\* is never in the work list, no task is started for it and no remote call
\* is made for it.
C15_NoIdDropped ==
  \A p \in Pos :
    ItemId(p) = NoId => (p \notin TodoSet /\ tpc[p] = "none" /\ calls[p] = 0)

\* the task of p has passed the point where worker stores its result
PastRecord(p) ==
  tpc[p] \in {"save_enter", "save_locked", "save_open", "save_dump", "done"}

\* C16: an item whose attachment is missing is never the subject of a
\* remote call or of a batch request, and it has a failure record as soon
\* as it has been processed: when its worker has stored its result
\* (step1.4), when the run has ended (batch stages).
C16_MissingAttachment ==
  \A p \in Pos :
    kind[p] = "noimg" =>
      /\ calls[p] = 0
      /\ (stage = "s14" /\ PastRecord(p)) => RecordedAs(p, "err")
      /\ (stage \in BatchStages /\ mainPc = "done" /\ p \in TodoSet) =>
            RecordedAs(p, "err")

\* the remote call of p is over and its outcome is in the worker's hands
PastCall(p) == tpc[p] \in {"lock", "locked"} \/ PastRecord(p)

\* C17: only a rate limit error is retried: an item whose remote call does
\* not hit the rate limit is called at most once in a run, and an item
\* whose call raises another error never waits for a retry, never ends
\* with an exception, has had exactly one attempt when its call is over
\* and has a failure record once its worker has stored the outcome.
C17_RetryOnlyRateLimit ==
  \A p \in Pos :
    /\ kind[p] # "rl" => calls[p] <= 1
    /\ (stage \in ThreadStages /\ kind[p] = "err") =>
          /\ tpc[p] \notin {"backoff", "exc"}
          /\ PastCall(p) => calls[p] = 1
          /\ PastRecord(p) => RecordedAs(p, "err")

\* a run in which one item was rate limited and tried again while another
\* failed with another error, was tried once and has its failure record
C17_Witness ==
  /\ stage \in ThreadStages
  /\ \E p \in Pos, q \in Pos :
        /\ kind[p] = "err" /\ calls[p] = 1 /\ RecordedAs(p, "err")
        /\ kind[q] = "rl" /\ calls[q] >= 2

\* C18: a run that had work to dispatch and has ended without being killed
\* has made a save after its last item, and the checkpoint file holds
\* exactly the records of the CheckpointSet, sorted by identifier.
C18_FinalSave ==
  (Ended /\ todo # <<>>) =>
     /\ saved
     /\ files[FinalPath(stage)] = FileOf(SortById(SelectHasId(results)))

\* the file is missing, empty, unparseable or holds an entry that is not a
\* well-formed record
Corrupt(f) == f.st # "ok" \/ \E k \in 1..Len(f.recs) : f.recs[k] = Bad

\* C19: the load of the checkpoint is never fatal, and a missing, empty or
\* corrupt file yields an empty CheckpointSet: the run goes on with nothing
\* loaded and with every input item pending.
C19_LoadNeverFatal ==
  (mainPc # "start" /\ Corrupt(files[LoadPath(stage)])) =>
     /\ mainPc \in {"pool", "chunk"}
     /\ results = <<>>
     /\ todo = InputSeq

\* C20: a run that lacks its credential or its prompt template ends with a
\* non-zero exit before any work is dispatched: it is at its start or has
\* left at the start-up checks, nothing is pending, it has made no remote
\* call and no checkpoint file has been written.
C20_FatalSetup ==
  setup # "ok" =>
     /\ mainPc \in {"start", "exit1"}
     /\ todo = <<>>
     /\ \A p \in Pos : calls[p] = 0
     /\ ~saved
     /\ \A f \in {"inter", "out"} : files[f] = Absent

\* a record that carries a success payload or an explicit failure payload
Resolved(rec) == rec.st \in {"ok", "err"}

\* C21: the work list a run plans is exactly the input items, in input
\* order, whose identifier has no resolved record in the loaded
\* CheckpointSet; an identifier whose loaded record carries neither a
\* result nor an error is in the work list.
C21_PlannerWorkList ==
  mainPc # "start" =>
    todo = SelectSeq(InputSeq,
             LAMBDA p : ~(HasKey(results, ItemId(p))
                          /\ Resolved(Get(results, ItemId(p)))))

\* the worker threads of a thread-pool stage run, before and after the step
PoolStep ==
  /\ stage \in ThreadStages
  /\ mainPc \in {"pool", "shutdown"} /\ mainPc' \in {"pool", "shutdown"}

C23_FileNeverRegresses ==
  [][(stage = "s14" /\ SaveCompletes) =>
       written \subseteq Keys(Parse(files'["out"]))]_vars

\* a step inside one run: the process has not just started
InRun == mainPc' # "start"

\* C24: within a run the CheckpointSet never shrinks: after every step of
\* the run its set of identifiers is a superset of the set before it.
C24_NeverShrinks ==
  [][InRun => Keys(results) \subseteq Keys(results')]_vars

\* a run that resumed from a checkpoint has stored a record for one more
\* identifier
C24_Witness ==
  /\ loaded # {}
  /\ loaded \subseteq Keys(results)
  /\ \E i \in Keys(results) : i \notin loaded

\* the records of the checkpoint this run found when it started
FoundRecs == Parse(prev.files[LoadPath(stage)])

\* C25: a resolved record loaded from the checkpoint is left unchanged by
\* the run: when the run has ended, the CheckpointSet and the checkpoint
\* file hold that record for its identifier.
C25_LoadedUnchanged ==
  (Ended /\ prev.end = "killed") =>
     \A k \in 1..Len(FoundRecs) :
        Resolved(FoundRecs[k]) =>
          /\ HasKey(results, FoundRecs[k].id)
          /\ Get(results, FoundRecs[k].id) = FoundRecs[k]
          /\ \E j \in 1..Len(Parse(files[FinalPath(stage)])) :
                Parse(files[FinalPath(stage)])[j] = FoundRecs[k]

\* the identifiers some save of this run has written or will write: those
\* already written, those in the snapshot of a save in progress, and all
\* recorded ones while a triggered save is still to take its snapshot (a
\* worker that waits for the lock it holds itself never takes it)
Covered ==
  written
    \cup UNION {Keys(snap[p]) : p \in {q \in Pos : tpc[q] \in {"save_open", "save_dump"}}}
    \cup (IF \E p \in Pos : /\ tpc[p] \in {"save_enter", "save_locked"}
                             /\ ~(tpc[p] = "save_enter" /\ lock = p)
            THEN Keys(results) ELSE {})

Uncovered == (Keys(results) \ loaded) \ Covered

ExpectedRecs ==
  {IF i \in loaded THEN Get(FoundRecs, i)
                   ELSE Rec(i, Outcome(CHOOSE p \in Pos : ItemId(p) = i)) :
     i \in loaded \cup ({ItemId(p) : p \in Pos} \ {NoId})}

\* C27: in thread-pool mode a run that completes leaves a final checkpoint
\* file that the input, the loaded checkpoint and the outcome of each item
\* determine, records and order, whatever the interleaving and the
\* completion order of the workers.
C27_Deterministic ==
  (stage \in ThreadStages /\ mainPc = "done") =>
     LET f == files[FinalPath(stage)] IN
       /\ f.st = "ok"
       /\ Ascending(f.recs)
       /\ Len(f.recs) = Cardinality(ExpectedRecs)
       /\ {f.recs[k] : k \in 1..Len(f.recs)} = ExpectedRecs

\* a resumed run has completed and its workers did not complete in
\* ascending order of identifier
C27_Witness ==
  /\ stage = "s14" /\ mainPc = "done" /\ loaded # {}
  /\ Len(results) > Cardinality(loaded) + 1
  /\ ~Ascending(results)

\* range(0, len(todo), batch_size)
ChunkStarts == {c \in 0..(Len(todo) - 1) : c % BatchSize = 0}

\* C28: in batch mode the chunks are consecutive slices of the pending
\* list, of batch_size items except the last, every pending item is in
\* exactly one chunk, the requests of a job are items of the current chunk,
\* and no item is submitted twice in a run.
C28_ChunkPartition ==
  stage \in BatchStages =>
    /\ \A c \in ChunkStarts :
          /\ Len(Chunk(todo, c)) <= BatchSize
          /\ c + BatchSize < Len(todo) => Len(Chunk(todo, c)) = BatchSize
          /\ \A j \in 1..Len(Chunk(todo, c)) : Chunk(todo, c)[j] = todo[c + j]
    /\ \A k \in 1..Len(todo) :
          Cardinality({c \in ChunkStarts :
                         \E j \in 1..Len(Chunk(todo, c)) :
                            Chunk(todo, c)[j] = todo[k]}) = 1
    /\ mainPc \in {"submit", "poll", "results"} =>
          /\ bidx \in ChunkStarts
          /\ \A k \in 1..Len(reqs) :
                \E j \in 1..Len(Chunk(todo, bidx)) : Chunk(todo, bidx)[j] = reqs[k]
    /\ \A p \in Pos : calls[p] <= 1

\* the job of the second chunk is polled after the job of the first chunk
\* failed
C28_Witness ==
  /\ stage \in BatchStages /\ mainPc = "poll" /\ bidx = BatchSize
  /\ Len(todo) > BatchSize /\ jobFail
  /\ calls[todo[1]] = 1 /\ calls[todo[bidx + 1]] = 1

\* C29: in batch mode a step that stores a record of a chunk is taken
\* while the results of its job are read, after a poll saw the job ended;
\* the job is never submitted or processing at such a step, and a chunk is
\* prepared and submitted only when no job of the run is outstanding. Steps
\* that load the checkpoint or start a new process are not steps of a job.
C29_ResultsAfterEnded ==
  [][(stage \in BatchStages /\ mainPc # "start" /\ InRun) =>
       /\ (mainPc' = "results" \/ results' # results) => job = "ended"
       /\ results' # results => mainPc = "results"
       /\ mainPc' \in {"submit", "poll"} /\ mainPc \in {"chunk", "submit"}
             => job = "none"]_vars

\* the first record of the second chunk has been stored from the results
\* of its ended job
C29_Witness ==
  /\ stage \in BatchStages /\ mainPc = "results" /\ job = "ended"
  /\ bidx = BatchSize /\ ent = 1
  /\ HasKey(results, ItemId(reqs[1]))

\* C30: in batch mode, when the provider goes on with every job, a run
\* that has entered the chunk loop leaves every polling loop, goes through
\* every chunk and ends with its final save.
C30_BatchTerminates ==
  (stage \in BatchStages /\ mainPc \notin {"start", "done", "exit1"})
    ~> /\ mainPc = "done"
       /\ bidx >= Len(todo)
       /\ files["out"] = FileOf(SortById(results))

\* the final save is reached by a run of two chunks of which one job failed
C30_Witness ==
  /\ stage \in BatchStages /\ mainPc = "done"
  /\ Len(todo) > BatchSize /\ bidx >= Len(todo)
  /\ jobFail /\ saved
  /\ \E p \in Pos : ~HasKey(results, ItemId(p))
  /\ \E p \in Pos : HasKey(results, ItemId(p))

\* C31: in batch mode a step that reads one entry of an ended job adds
\* exactly one record to the CheckpointSet, under the identifier of the
\* item of the entry as the input gives it (integer or string), and an
\* entry without a message gives a failure record.
C31_RecordUnderOriginalId ==
  [][(stage \in BatchStages /\ mainPc = "results" /\ ent' = ent + 1) =>
       /\ Len(results') = Len(results) + 1
       /\ HasKey(results', ItemId(reqs[ent + 1]))
       /\ Get(results', ItemId(reqs[ent + 1])).st =
            (IF kind[reqs[ent + 1]] = "nomsg" THEN "err" ELSE "ok")]_vars

\* C32: in batch mode the turn of every save_interval-th chunk of the run
\* ends with a save of the CheckpointSet, whatever happened to the chunk:
\* its job succeeded, a call raised, or it had no valid request.
C32_SaveEveryInterval ==
  [][(stage \in BatchStages /\ bidx' = bidx + BatchSize /\ SaveDue(bidx)) =>
       /\ mainPc = "chunk_save_dump"
       /\ files'["out"] = FileOf(SortById(results))]_vars

\* C33: in batch mode a call of a chunk that raises does not abort the run:
\* the step keeps the records of the CheckpointSet and goes on after the
\* try block, and a run in which a call raised still submits every later
\* chunk that has a request and ends with the final save.
C33_ChunkFailureIsolated ==
  [][(stage \in BatchStages /\ InRun) =>
       /\ (jobFail' /\ ~jobFail) =>
             /\ results' = results
             /\ mainPc' = "after_chunk"
       /\ jobFail' =>
             /\ mainPc' \notin {"aborted", "exit1"}
             /\ loaded' \subseteq Keys(results')
             /\ mainPc' = "done" =>
                   /\ \A k \in 1..Len(todo') :
                         kind[todo'[k]] # "noimg" => calls'[todo'[k]] = 1
                   /\ files'["out"] = FileOf(SortById(results'))]_vars

\* the job of the first chunk failed, the second chunk got its record and
\* the run has ended
C33_Witness ==
  /\ stage \in BatchStages /\ mainPc = "done" /\ jobFail
  /\ Len(todo) > BatchSize
  /\ calls[todo[1]] = 1 /\ ~HasKey(results, ItemId(todo[1]))
  /\ HasKey(results, ItemId(todo[BatchSize + 1]))
  /\ files["out"] = FileOf(SortById(results))

\* an item is in its pacing delay, its remote call or its retry wait
Executing(p) == tpc[p] \in {"pace", "call", "backoff"}

\* C34: in thread-pool mode at most max_workers items are executed at any
\* time, the work list holds no item twice, and the task of an item that
\* has been started is not started again in the run.
C34_PoolLimit ==
  [][(stage \in ThreadStages /\ InRun) =>
       /\ Cardinality({p \in Pos : Executing(p)}) <= NumWorkers
       /\ \A j \in 1..Len(todo), k \in 1..Len(todo) : j # k => todo[j] # todo[k]
       /\ \A p \in Pos :
             tpc[p] \notin {"none", "pending"} => tpc'[p] \notin {"none", "pending"}]_vars

\* every worker is executing an item and another item waits in the queue
C34_Witness ==
  /\ stage \in ThreadStages /\ mainPc = "pool"
  /\ Cardinality({p \in Pos : Executing(p)}) = NumWorkers
  /\ \E p \in Pos : tpc[p] = "pending"

\* C36: in thread-pool mode a worker comes to a remote call attempt, the
\* first one or a retry, only by the step of its pacing delay.
C36_PacedCalls ==
  [][(stage \in ThreadStages) =>
       (\A p \in Pos :
           (tpc'[p] = "call" /\ tpc[p] # "call") => tpc[p] = "pace")]_vars

\* C35: in every stage, when the response has been parsed, the payload is
\* the text between the markers if the tag pair is there and the whole
\* response if it is not, whitespace at the ends aside.
C35_ParseFallback ==
  mainPc = "parsed" =>
     strip(payload) = (IF HasMatch(response_text)
                         THEN strip(group1(response_text))
                         ELSE strip(response_text))

\* the verify records that carry an answer and a correct answer which are
\* equal after trimming and upper-casing, and an identifier
CorrectRecs ==
  {k \in 1..Len(puzzle_results) :
     /\ puzzle_results[k].has
     /\ upper(strip(puzzle_results[k].answer))
          = upper(strip(puzzle_results[k].correct_answer))
     /\ puzzle_results[k].id # NoId}

KeptIds == {filtered_questions[k].orig : k \in 1..Len(filtered_questions)}

Filtered == stage = "s15" /\ mainPc \in {"done", "exit0"}

\* C37: when the filter stage is over, the questions kept are exactly those
\* of the verify records that carry an answer and a correct answer, equal
\* after trimming and upper-casing, and an identifier; no failure record is
\* among them and the new indexes are distinct.
C37_FilterKeepsCorrect ==
  Filtered =>
    /\ KeptIds = {puzzle_results[k].id : k \in CorrectRecs}
    /\ \A k \in 1..Len(puzzle_results) :
          ~puzzle_results[k].has => puzzle_results[k].id \notin KeptIds
    /\ \A j \in 1..Len(filtered_questions), k \in 1..Len(filtered_questions) :
          j # k => filtered_questions[j].id # filtered_questions[k].id

\* C37 amended: the questions kept are exactly those of the correct verify
\* records whose identifier is in the questions file, one question each;
\* no failure record is among them and the new indexes are distinct.
C37_FilterKeepsCorrectKnown ==
  Filtered =>
    /\ KeptIds = {puzzle_results[k].id : k \in CorrectRecs} \cap merged_questions
    /\ Len(filtered_questions) = Cardinality(KeptIds)
    /\ \A k \in 1..Len(puzzle_results) :
          ~puzzle_results[k].has => puzzle_results[k].id \notin KeptIds
    /\ \A j \in 1..Len(filtered_questions), k \in 1..Len(filtered_questions) :
          j # k => filtered_questions[j].id # filtered_questions[k].id

\* two questions are kept, one of them for an answer that equals the
\* correct answer only after trimming and upper-casing
C37_Witness ==
  /\ stage = "s15" /\ mainPc = "done"
  /\ Len(filtered_questions) = 2
  /\ \E k \in CorrectRecs :
        puzzle_results[k].answer # puzzle_results[k].correct_answer
====
